---------------------------- MODULE Spec2Model ----------------------------
(***************************************************************************)
(* A model of the Atlassian-markup to markdown transpiler of refrences-lsp *)
(* (src/src/atlassian_markup_transpiler.rs) and of its caller, the         *)
(* construction of a JiraTicket from an issue (src/src/jira_resolver.rs).  *)
(*                                                                         *)
(* Texts are strings; a position is a 1-based index of a character, and    *)
(* Len(inp) + 1 is the end of input.  A parser is an operator of the input *)
(* and a start position that returns a record                              *)
(*     [res |-> "ok" | "err" | "panic", pos |-> position after it,         *)
(*      out |-> what it produced]                                          *)
(* where "err" is a chumsky parse failure (the combinator that called it   *)
(* rewinds to where it started) and "panic" is a Rust panic, which no      *)
(* combinator catches.                                                     *)
(***************************************************************************)
EXTENDS Integers, Sequences, FiniteSets, TLC

VARIABLES
    markup,   \* the text this run is about (a description, a test's markup)
    call,     \* the entry point that was called: "none" before the call
    arg,      \* atlassian_markup, the argument of the transpiler
    pc,       \* where the transpiler is: idle, parsing, folding, done, panicked
    pos,      \* the input position of the driver's repeated() loop
    ast,      \* the nodes collected so far (atlassian_markup_ast)
    idx,      \* the next node of the fold
    acc,      \* the fold's accumulator
    output,   \* the String the transpiler returned
    parsed,   \* what Parser::parse returned for a block parser called alone
    issue,    \* the shape of the gouqi Issue given to try_from
    ticket,   \* what try_from ended in
    pushed,   \* a call of push_content_onto_string: the node, target before and after
    file,     \* the file on disk that get_refrences is asked about
    cache,    \* file_refrences_map: the entry of the file's path
    finder,   \* where get_refrences is, and its locals
    server    \* Server::run_loop: where it is, the message taken, the responses sent

vars == <<markup, call, arg, pc, pos, ast, idx, acc, output, parsed, issue, ticket,
          pushed, file, cache, finder, server>>

\* The variables of the reference finder and of the file it reads.
finderVars == <<file, cache, finder>>

-----------------------------------------------------------------------------
(* Bounds of the model. *)

\* Lines of a generated multi-line document.
MaxLines == 2

\* Options written in a generated opening tag.
MaxOpts == 3

\* Writes to the file after the RefrenceFinder was made.
MaxWrites == 2

\* Calls of get_refrences.
MaxCalls == 2

\* Messages the server takes from the connection.
MaxMessages == 2

-----------------------------------------------------------------------------
(* Characters and primitive parsers. *)

\* The character of inp at position p; "" at or past the end of input.
CharAt(inp, p) == IF p >= 1 /\ p <= Len(inp) THEN SubSeq(inp, p, p) ELSE ""

\* just(lit) matches at p.
JustAt(inp, p, lit) ==
    /\ p + Len(lit) - 1 <= Len(inp)
    /\ SubSeq(inp, p, p + Len(lit) - 1) = lit

\* char::is_whitespace, over the characters the model writes.
Whitespace == {" ", "\t", "\n"}

\* one_of(" \t") of the heading parser.
InlineWhitespace == {" ", "\t"}

Digits == {"0", "1", "2", "3", "4", "5", "6", "7", "8", "9"}

Letters == {"a", "b", "c", "d", "e", "f", "g", "h", "i", "j", "k", "l", "m",
            "n", "o", "p", "q", "r", "s", "t", "u", "v", "w", "x", "y", "z",
            "A", "B", "C", "D", "E", "F", "G", "H", "I", "J", "K", "L", "M",
            "N", "O", "P", "Q", "R", "S", "T", "U", "V", "W", "X", "Y", "Z"}

\* The first position >= p whose character is not in set (one_of(set).repeated()).
RECURSIVE SkipWhile(_, _, _)
SkipWhile(inp, p, set) ==
    IF p <= Len(inp) /\ CharAt(inp, p) \in set
    THEN SkipWhile(inp, p + 1, set)
    ELSE p

\* The first position >= p whose character is in set, or the end of input
\* (none_of(set).repeated()).
RECURSIVE SkipUntil(_, _, _)
SkipUntil(inp, p, set) ==
    IF p <= Len(inp) /\ CharAt(inp, p) \notin set
    THEN SkipUntil(inp, p + 1, set)
    ELSE p

SkipUntilJust_Last(inp, p, lit) ==
    IF \E q \in p..Len(inp) : JustAt(inp, q, lit)
    THEN CHOOSE q \in p..Len(inp) :
            /\ JustAt(inp, q, lit)
            /\ \A r \in (q + 1)..Len(inp) : ~JustAt(inp, r, lit)
    ELSE Len(inp) + 1

\* The first position >= p where lit starts, or the end of input
\* (any().and_is(just(lit).not()).repeated()).
RECURSIVE SkipUntilJust(_, _, _)
SkipUntilJust(inp, p, lit) ==
    IF p <= Len(inp) /\ ~JustAt(inp, p, lit)
    THEN SkipUntilJust(inp, p + 1, lit)
    ELSE p

\* F(v), with v evaluated once.
With(v, F(_)) == CHOOSE r \in {F(w) : w \in {v}} : TRUE

\* Option<T>: None is the empty tuple, Some(v) the tuple of v.
None == <<>>
Some(v) == <<v>>

NoOut == [variant |-> "none"]
Ok(p, o) == [res |-> "ok", pos |-> p, out |-> o]
Err(p) == [res |-> "err", pos |-> p, out |-> NoOut]
Panic(p) == [res |-> "panic", pos |-> p, out |-> NoOut]

-----------------------------------------------------------------------------
(* The heading grammar. *)

\* The variant heading_ast_node_from_count builds for a level; "panic" is its
\* panic!("Illegal") arm.
heading_ast_node_from_count_Off(count) ==
    CASE count = 1 -> "Heading1"
      [] count = 2 -> "Heading2"
      [] count = 3 -> "Heading3"
      [] count = 4 -> "Heading4"
      [] count = 5 -> "Heading6"
      [] count = 6 -> "Heading6"
      [] OTHER -> "panic"

heading_ast_node_from_count(count) ==
    CASE count = 1 -> "Heading1"
      [] count = 2 -> "Heading2"
      [] count = 3 -> "Heading3"
      [] count = 4 -> "Heading4"
      [] count = 5 -> "Heading5"
      [] count = 6 -> "Heading6"
      [] OTHER -> "panic"

\* char::to_digit(10) of a decimal digit.
to_digit(c) ==
    CASE c = "0" -> 0 [] c = "1" -> 1 [] c = "2" -> 2 [] c = "3" -> 3
      [] c = "4" -> 4 [] c = "5" -> 5 [] c = "6" -> 6 [] c = "7" -> 7
      [] c = "8" -> 8 [] c = "9" -> 9

build_atlassian_markup_heading_parser_AnyDigit(inp, p) ==
    IF ~JustAt(inp, p, "h") THEN Err(p)
    ELSE IF CharAt(inp, p + 1) \notin Digits THEN Err(p)
    ELSE IF ~JustAt(inp, p + 2, ".") THEN Err(p)
    ELSE IF heading_ast_node_from_count(to_digit(CharAt(inp, p + 1))) = "panic"
    THEN Panic(p)
    ELSE With(SkipWhile(inp, p + 3, InlineWhitespace), LAMBDA q :
         With(SkipUntil(inp, q, {"\n"}), LAMBDA e :
            IF ~JustAt(inp, e, "\n") THEN Err(p)
            ELSE Ok(e + 1,
                    [variant |-> heading_ast_node_from_count(
                                    to_digit(CharAt(inp, p + 1))),
                     content |-> SubSeq(inp, q, e - 1)])))

build_atlassian_markup_heading_parser_NoRewind(inp, p) ==
    IF ~JustAt(inp, p, "h") THEN Err(p)
    ELSE IF CharAt(inp, p + 1) \notin {"1", "2", "3", "4", "5", "6"} THEN Err(p + 1)
    ELSE IF ~JustAt(inp, p + 2, ".") THEN Err(p + 2)
    ELSE With(SkipWhile(inp, p + 3, InlineWhitespace), LAMBDA q :
         With(SkipUntil(inp, q, {"\n"}), LAMBDA e :
            IF ~JustAt(inp, e, "\n") THEN Err(e)
            ELSE Ok(e + 1,
                    [variant |-> heading_ast_node_from_count(
                                    to_digit(CharAt(inp, p + 1))),
                     content |-> SubSeq(inp, q, e - 1)])))

\* just("h"), one_of("123456"), just("."), inline whitespace, the rest of
\* the line and its "\n".
build_atlassian_markup_heading_parser(inp, p) ==
    IF ~JustAt(inp, p, "h") THEN Err(p)
    ELSE IF CharAt(inp, p + 1) \notin {"1", "2", "3", "4", "5", "6"} THEN Err(p)
    ELSE IF ~JustAt(inp, p + 2, ".") THEN Err(p)
    ELSE IF heading_ast_node_from_count(to_digit(CharAt(inp, p + 1))) = "panic"
    THEN Panic(p)
    ELSE With(SkipWhile(inp, p + 3, InlineWhitespace), LAMBDA q :
         With(SkipUntil(inp, q, {"\n"}), LAMBDA e :
            IF ~JustAt(inp, e, "\n") THEN Err(p)
            ELSE Ok(e + 1,
                    [variant |-> heading_ast_node_from_count(
                                    to_digit(CharAt(inp, p + 1))),
                     content |-> SubSeq(inp, q, e - 1)])))

-----------------------------------------------------------------------------
(* The renderers. *)

\* The marker line push_content_onto_string writes for an admonition kind.
AdmotionMarker(kind) ==
    CASE kind = "Info" -> "> [!INFO]"
      [] kind = "Tip" -> "> [!TIP]"
      [] kind = "Warning" -> "> [!WARNING]"
      [] kind = "Note" -> "> [!NOTE]"

\* The fence of a code block, three backticks.  A TLA+ string cannot hold the
\* backtick (U+0060): "'" stands for it, and no input of the model holds "'".
Fence == "'''"

\* "# " .. "###### " of a heading variant.
HeadingPrefix(variant) ==
    CASE variant = "Heading1" -> "# "
      [] variant = "Heading2" -> "## "
      [] variant = "Heading3" -> "### "
      [] variant = "Heading4" -> "#### "
      [] variant = "Heading5" -> "##### "
      [] variant = "Heading6" -> "###### "

HeadingVariants ==
    {"Heading1", "Heading2", "Heading3", "Heading4", "Heading5", "Heading6"}

\* Option<&str>::unwrap_or("").
unwrap_or_empty(opt) == IF opt = None THEN "" ELSE opt[1]

\* MarkUpNode::to_markdown_string: the text of a node, or the panic of the
\* todo!() of its Admotion arm.
to_markdown_string(node) ==
    CASE node.variant = "PlainText" ->
            [panic |-> FALSE, text |-> node.content \o "\n"]
      [] node.variant \in HeadingVariants ->
            [panic |-> FALSE,
             text |-> HeadingPrefix(node.variant) \o node.content \o "\n"]
      [] node.variant = "CodeBlock" ->
            [panic |-> FALSE,
             text |-> Fence \o unwrap_or_empty(node.language) \o "\n"
                      \o node.content \o "\n" \o Fence]
      [] node.variant = "Admotion" ->
            [panic |-> TRUE, text |-> ""]

\* MarkUpNode::push_content_onto_string: target after the call.
push_content_onto_string(node, target) ==
    CASE node.variant = "PlainText" ->
            target \o node.content \o "\n"
      [] node.variant \in HeadingVariants ->
            target \o HeadingPrefix(node.variant) \o node.content \o "\n"
      [] node.variant = "CodeBlock" ->
            target \o Fence \o unwrap_or_empty(node.language) \o "\n"
                   \o node.content \o Fence \o "\n"
      [] node.variant = "Admotion" ->
            target \o AdmotionMarker(node.kind)
                   \o (IF node.title = None THEN ""
                       ELSE "**" \o node.title[1] \o "**")
                   \o node.content \o "\n"

-----------------------------------------------------------------------------
(* Values of options. *)

\* just("true").or(just("false")), as a bool.
bool_parser(inp, p) ==
    IF JustAt(inp, p, "true") THEN Ok(p + 4, TRUE)
    ELSE IF JustAt(inp, p, "false") THEN Ok(p + 5, FALSE)
    ELSE Err(p)

\* text::ident(): a letter, then letters, digits and "_".
ident(inp, p) ==
    IF CharAt(inp, p) \notin Letters THEN Err(p)
    ELSE With(SkipWhile(inp, p + 1, Letters \cup Digits \cup {"_"}),
              LAMBDA e : Ok(e, SubSeq(inp, p, e - 1)))

\* The digits of u64::MAX, 2^64 - 1.
U64MaxDigits == "18446744073709551615"

\* d without its leading zeros; "0" when d is all zeros.
StripZeros(d) ==
    With(SkipWhile(d, 1, {"0"}),
         LAMBDA z : IF z > Len(d) THEN "0" ELSE SubSeq(d, z, Len(d)))

\* a <= b for two digit strings of the same length: they are equal, or a
\* has the smaller digit at the first position where they differ.
DigitsLeq(a, b) ==
    \/ a = b
    \/ \E i \in 1..Len(a) :
        /\ SubSeq(a, 1, i - 1) = SubSeq(b, 1, i - 1)
        /\ to_digit(CharAt(a, i)) < to_digit(CharAt(b, i))

\* The number a digit string writes is at most u64::MAX.
FitsU64(d) ==
    \E n \in {StripZeros(d)} :
        \/ Len(n) < Len(U64MaxDigits)
        \/ Len(n) = Len(U64MaxDigits) /\ DigitsLeq(n, U64MaxDigits)

\* u64::from_str of a digit string: Ok(the number, written without leading
\* zeros) or Err (None here) when it does not fit in 64 bits.
from_str_u64(d) == IF FitsU64(d) THEN Some(StripZeros(d)) ELSE None

\* digits(10).to_slice().from_str::<u64>().unwrapped(): unwrapped() panics
\* on the Err of from_str.
firstline_value(inp, p) ==
    With(SkipWhile(inp, p, Digits), LAMBDA e :
        IF e = p THEN Err(p)
        ELSE With(from_str_u64(SubSeq(inp, p, e - 1)), LAMBDA v :
                IF v = None THEN Panic(p) ELSE Ok(e, v[1])))

-----------------------------------------------------------------------------
(* The code-block grammar. *)

Opt(k, v) == [kind |-> k, value |-> v]

\* The characters that end a title= value of a code block: none_of("|").
CodeTitleStop == {"|"}

\* A value parser's result r as the option of kind k; at is where the
\* option started.
AsOption(k, r, at) ==
    IF r.res = "ok" THEN Ok(r.pos, Opt(k, r.out))
    ELSE IF r.res = "panic" THEN Panic(at)
    ELSE Err(at)

\* One alternative of the choice of arguments_parser: key, then value.
CodeBlockAlternative(key, inp, p) ==
    IF ~JustAt(inp, p, key) THEN Err(p)
    ELSE CASE key = "title=" ->
                With(SkipUntil(inp, p + Len(key), CodeTitleStop), LAMBDA e :
                    Ok(e, Opt("Title", SubSeq(inp, p + Len(key), e - 1))))
           [] key = "linenumbers=" ->
                With(bool_parser(inp, p + Len(key)),
                     LAMBDA r : AsOption("LineNumbers", r, p))
           [] key = "language=" ->
                With(ident(inp, p + Len(key)),
                     LAMBDA r : AsOption("Language", r, p))
           [] key = "firstline=" ->
                With(firstline_value(inp, p + Len(key)),
                     LAMBDA r : AsOption("FirstLine", r, p))
           [] key = "collapse=" ->
                With(bool_parser(inp, p + Len(key)),
                     LAMBDA r : AsOption("Collapse", r, p))

\* The alternatives of choice((...)), in the order they are tried.
CodeBlockKeys == <<"title=", "linenumbers=", "language=", "firstline=", "collapse=">>

\* choice: the first alternative, from the k-th on, that does not fail.
RECURSIVE CodeBlockChoice(_, _, _)
CodeBlockChoice(inp, p, k) ==
    IF k > Len(CodeBlockKeys) THEN Err(p)
    ELSE With(CodeBlockAlternative(CodeBlockKeys[k], inp, p), LAMBDA r :
            IF r.res = "err" THEN CodeBlockChoice(inp, p, k + 1) ELSE r)

\* separated_by(just("|")).collect(): items holds the options collected so
\* far and p is the position after the last of them.  A separator that no
\* option follows is given back.
RECURSIVE CodeBlockSeparated(_, _, _)
CodeBlockSeparated(inp, p, items) ==
    IF Len(items) > 0 /\ ~JustAt(inp, p, "|") THEN Ok(p, items)
    ELSE With(CodeBlockChoice(inp, IF Len(items) = 0 THEN p ELSE p + 1, 1),
              LAMBDA r :
                IF r.res = "panic" THEN Panic(p)
                ELSE IF r.res = "err" THEN Ok(p, items)
                ELSE CodeBlockSeparated(inp, r.pos, Append(items, r.out)))

\* arguments_parser: just(":") and the options.
arguments_parser(inp, p) ==
    IF ~JustAt(inp, p, ":") THEN Err(p)
    ELSE CodeBlockSeparated(inp, p + 1, <<>>)

\* What a block parser read: the options (an Option of the vector), the
\* content and the position the content starts at.
Parts(r, p, o, c, f) == [res |-> r, pos |-> p, opts |-> o, content |-> c, from |-> f]

NoParts(r, p) == Parts(r, p, None, "", p)

\* The content of a block that starts at b and ends where the closing tag
\* close starts; after skips whitespace behind the closing tag or not.
ContentTo(inp, p, b, close, opts, after) ==
    With(SkipUntilJust(inp, b, close), LAMBDA e :
        IF ~JustAt(inp, e, close) THEN NoParts("err", p)
        ELSE Parts("ok",
                   IF after THEN SkipWhile(inp, e + Len(close), Whitespace)
                   ELSE e + Len(close),
                   opts, SubSeq(inp, b, e - 1), b))

\* code_body: "}" padded, the content, which ends where "{code}" starts, and
\* "{code}" padded.
code_body(inp, p, opts) ==
    With(SkipWhile(inp, p, Whitespace), LAMBDA a :
        IF ~JustAt(inp, a, "}") THEN NoParts("err", p)
        ELSE ContentTo(inp, p, SkipWhile(inp, a + 1, Whitespace), "{code}",
                       opts, TRUE))

RECURSIVE find_map_Last(_, _)
find_map_Last(vs, kind) ==
    IF Len(vs) = 0 THEN None
    ELSE IF vs[Len(vs)].kind = kind THEN Some(vs[Len(vs)].value)
    ELSE find_map_Last(SubSeq(vs, 1, Len(vs) - 1), kind)

\* iter().find_map(..) of the closures of the block parsers: the value of
\* the first option of the kind.
RECURSIVE find_map(_, _)
find_map(vs, kind) ==
    IF Len(vs) = 0 THEN None
    ELSE IF Head(vs).kind = kind THEN Some(Head(vs).value)
    ELSE find_map(Tail(vs), kind)

\* What build_code_block_parser reads at p: just("{code"), the arguments or
\* not, and the body.
CodeBlockParts(inp, p) ==
    IF ~JustAt(inp, p, "{code") THEN NoParts("err", p)
    ELSE With(arguments_parser(inp, p + 5), LAMBDA a :
            IF a.res = "panic" THEN NoParts("panic", p)
            ELSE IF a.res = "ok"
            THEN With(code_body(inp, a.pos, Some(a.out)), LAMBDA b :
                    IF b.res = "ok" THEN b ELSE NoParts("err", p))
            ELSE With(code_body(inp, p + 5, None), LAMBDA b :
                    IF b.res = "ok" THEN b ELSE NoParts("err", p)))

\* The closure of build_code_block_parser: the node of what was read.
CodeBlockNode(r) ==
    [variant |-> "CodeBlock",
     language |-> IF r.opts = None THEN None
                  ELSE find_map(r.opts[1], "Language"),
     content |-> r.content]

\* The parser build_code_block_parser returns, run at p.
build_code_block_parser(inp, p) ==
    With(CodeBlockParts(inp, p), LAMBDA r :
        IF r.res = "ok" THEN Ok(r.pos, CodeBlockNode(r))
        ELSE IF r.res = "panic" THEN Panic(p)
        ELSE Err(p))

-----------------------------------------------------------------------------
(* The admonition grammar. *)

AdmotionKinds == {"Info", "Tip", "Warning", "Note"}

\* AdmotionKind::aatlassian_markup_keyword.
aatlassian_markup_keyword(kind) ==
    CASE kind = "Info" -> "info"
      [] kind = "Tip" -> "tip"
      [] kind = "Warning" -> "warning"
      [] kind = "Note" -> "note"

\* title_parser.or(show_icon_parser).
AdmotionChoice(inp, p) ==
    IF JustAt(inp, p, "title=")
    THEN With(SkipUntil(inp, p + 6, {"|", "}"}), LAMBDA e :
            Ok(e, Opt("Title", SubSeq(inp, p + 6, e - 1))))
    ELSE IF JustAt(inp, p, "show_icon=")
    THEN With(bool_parser(inp, p + 10), LAMBDA r : AsOption("ShowIcon", r, p))
    ELSE Err(p)

\* separated_by(just("|")).collect() of ops_parser.
RECURSIVE AdmotionSeparated(_, _, _)
AdmotionSeparated(inp, p, items) ==
    IF Len(items) > 0 /\ ~JustAt(inp, p, "|") THEN Ok(p, items)
    ELSE With(AdmotionChoice(inp, IF Len(items) = 0 THEN p ELSE p + 1),
              LAMBDA r :
                IF r.res = "err" THEN Ok(p, items)
                ELSE AdmotionSeparated(inp, r.pos, Append(items, r.out)))

\* ops_parser: just(":") and the options.
ops_parser(inp, p) ==
    IF ~JustAt(inp, p, ":") THEN Err(p)
    ELSE AdmotionSeparated(inp, p + 1, <<>>)

\* end_tag: "{", the keyword, "}".
end_tag(kind) == "{" \o aatlassian_markup_keyword(kind) \o "}"

\* start_tag from the "}" on, which is at c, padded behind; then the
\* content, which ends where end_tag starts, and end_tag.
AdmotionBody(kind, inp, p, c, opts) ==
    IF ~JustAt(inp, c, "}") THEN NoParts("err", p)
    ELSE ContentTo(inp, p, SkipWhile(inp, c + 1, Whitespace), end_tag(kind),
                   opts, FALSE)

\* What build_admotion_parser reads at p: whitespace, tag_prefix, the
\* options or not, and the rest.
AdmotionParts(kind, inp, p) ==
    With(SkipWhile(inp, p, Whitespace) + 1 + Len(aatlassian_markup_keyword(kind)),
         LAMBDA c :
            IF ~JustAt(inp, c - 1 - Len(aatlassian_markup_keyword(kind)),
                       "{" \o aatlassian_markup_keyword(kind))
            THEN NoParts("err", p)
            ELSE With(ops_parser(inp, c), LAMBDA o :
                    IF o.res = "ok"
                    THEN AdmotionBody(kind, inp, p, o.pos, Some(o.out))
                    ELSE AdmotionBody(kind, inp, p, c, None)))

unwrap_or_true_False(opt) == IF opt = None THEN FALSE ELSE opt[1]

\* Option<bool>::unwrap_or(true).
unwrap_or_true(opt) == IF opt = None THEN TRUE ELSE opt[1]

AdmotionNode_LastWins(admotion_kind, r) ==
    [variant |-> "Admotion",
     kind |-> admotion_kind,
     title |-> IF r.opts = None THEN None ELSE find_map_Last(r.opts[1], "Title"),
     show_icon |-> unwrap_or_true(IF r.opts = None THEN None
                                  ELSE find_map_Last(r.opts[1], "ShowIcon")),
     content |-> r.content]

\* The closure of build_admotion_parser: the node of what was read.
AdmotionNode(admotion_kind, r) ==
    [variant |-> "Admotion",
     kind |-> admotion_kind,
     title |-> IF r.opts = None THEN None ELSE find_map(r.opts[1], "Title"),
     show_icon |-> unwrap_or_true(IF r.opts = None THEN None
                                  ELSE find_map(r.opts[1], "ShowIcon")),
     content |-> r.content]

\* The parser build_admotion_parser(admotion_kind) returns, run at p.
build_admotion_parser(admotion_kind, inp, p) ==
    With(AdmotionParts(admotion_kind, inp, p), LAMBDA r :
        IF r.res = "ok" THEN Ok(r.pos, AdmotionNode(admotion_kind, r))
        ELSE Err(p))

\* Parser::parse: the parser from the start of inp, then the end of input.
\* r is what the parser did at position 1.
parse(r, inp) ==
    IF r.res = "ok" /\ r.pos # Len(inp) + 1 THEN Err(1) ELSE r

-----------------------------------------------------------------------------
(* The reference finder. *)

UpperLetters == {"A", "B", "C", "D", "E", "F", "G", "H", "I", "J", "K", "L", "M",
                 "N", "O", "P", "Q", "R", "S", "T", "U", "V", "W", "X", "Y", "Z"}

\* The jira_ticket group of refrence_regex at p, [A-Z]{3,}-\d+: the position
\* after the match, 0 without a match.  The letters are taken greedily, and
\* giving some back finds no "-".
jira_ticket(inp, p) ==
    With(SkipWhile(inp, p, UpperLetters), LAMBDA l :
        IF l - p < 3 \/ ~JustAt(inp, l, "-") THEN 0
        ELSE With(SkipWhile(inp, l + 1, Digits), LAMBDA e :
                IF e = l + 1 THEN 0 ELSE e))

\* usize as u32, for the values the model computes.  A u32 is written as the
\* integer of the same 32 bits, read as signed: 2^32 - 1, the 32 low bits of
\* the usize -1 wraps to, is -1.
as_u32(n) == n

\* a <= b for two u32.
U32Leq(a, b) == IF (a < 0) = (b < 0) THEN a <= b ELSE b < 0

\* The InFileRefrence of the match from s to e, both offsets of bytes from
\* 0.  start - line_start_position - 1 is a subtraction of usize: below 0 it
\* panics with overflow checks and wraps without.
InFileRefrence(inp, s, e, current_line, line_start_position) ==
    [ticket |-> SubSeq(inp, s + 1, e),
     range |-> [line |-> current_line,
                start_character |-> as_u32(s - line_start_position - 1),
                end_character |-> as_u32(e - line_start_position)]]

\* captures_iter(..).filter_map(..).collect() from position p on, with the
\* counters of the closure and the references collected so far.
RECURSIVE Captures(_, _, _, _, _, _)
Captures(inp, p, current_line, line_start_position, refrences, overflow_checks) ==
    IF p > Len(inp) THEN [res |-> "ok", refrences |-> refrences]
    ELSE IF CharAt(inp, p) = "\n"
    THEN Captures(inp, p + 1, current_line + 1, p - 1, refrences, overflow_checks)
    ELSE With(jira_ticket(inp, p), LAMBDA e :
            IF e = 0
            THEN Captures(inp, p + 1, current_line, line_start_position,
                          refrences, overflow_checks)
            ELSE IF overflow_checks /\ (p - 1) - line_start_position - 1 < 0
            THEN [res |-> "panic", refrences |-> <<>>]
            ELSE Captures(inp, e, current_line, line_start_position,
                          Append(refrences,
                                 InFileRefrence(inp, p - 1, e - 1, current_line,
                                                line_start_position)),
                          overflow_checks))

\* The scan of find_refrences_in_file: both counters start at 0.
Scan(file_contents, overflow_checks) ==
    Captures(file_contents, 1, 0, 0, <<>>, overflow_checks)

\* InlineRange::contains_position.
contains_position(range, line, character) ==
    /\ range.line = line
    /\ U32Leq(range.start_character, character)
    /\ ~U32Leq(range.end_character, character)

-----------------------------------------------------------------------------
(* The texts the entry points are called with. *)

\* The tuples over S of length at most n.
TuplesUpTo(S, n) == UNION {[1..k -> S] : k \in 0..n}

\* The texts of a tuple, one after the other, sep between two of them.
RECURSIVE Join(_, _)
Join(ts, sep) ==
    IF Len(ts) = 0 THEN ""
    ELSE IF Len(ts) = 1 THEN ts[1]
    ELSE ts[1] \o sep \o Join(Tail(ts), sep)

\* What follows the keyword of an opening tag: nothing, or ":" and options.
OptionTexts(S, n) == {""} \cup {":" \o Join(ts, "|") : ts \in TuplesUpTo(S, n)}

HeadingLevels == {"1", "2", "3", "4", "5", "6"}

HeadingTexts == {"", "T", "Some heading", "a\tb {x}", " lead", "\tlead"}

\* "hN. T\n" for every level and text.
HeadingLines == {"h" \o n \o ". " \o t \o "\n" : n \in HeadingLevels, t \in HeadingTexts}

\* The pieces multi-line documents are made of: headings, lines that are no
\* heading, a code block, an admonition, a line without its "\n".
DocItems ==
    {"h1. One\n", "h6.Six\n", "h2. \n", "h7. seven\n", "h3 three\n", "plain\n",
     "\n", "{code}\nHello\n{code}\n", "{info}\nX\n{info}\n", "h4. open"}

Docs == {Join(ts, "") : ts \in TuplesUpTo(DocItems, MaxLines)}

\* Options written in the opening tag of a code block.
CodeOptionTexts ==
    {"title=This is my title", "title=T", "linenumbers=true", "linenumbers=yes",
     "language=python", "language=js", "firstline=0001",
     "firstline=18446744073709551615", "firstline=18446744073709551616",
     "collapse=false", "colour=red"}

\* Bodies of blocks: between the opening tag and the closing tag.
CodeBodies ==
    {"\nThis is my code\n", "\n    This is my code\n    ", "Hello", "",
     "\na|language=js}b\n", "x{info}y{cod{tip}z", "one{code}two"}

AfterClose == {"", "\n    ", "\nmore\n"}

\* Code blocks: every option list with one body, and a few option lists
\* with every body, with and without the closing tag, and what follows it.
CodeDocs ==
    {"{code" \o o \o "}\nThis is my code\n{code}" :
        o \in OptionTexts(CodeOptionTexts, MaxOpts)}
    \cup
    {"{code" \o o \o "}" \o b \o c \o a :
        o \in {"", ":language=python", ":title=T", ":title=This|language=python",
               ":language=c|title=T"},
        b \in CodeBodies, c \in {"{code}", "{code", ""}, a \in AfterClose}

\* Options written in the opening tag of an admonition.
AdmotionOptionTexts ==
    {"title=My title", "title=T", "show_icon=false", "show_icon=true",
     "show_icon=no", "icon=x"}

AdmotionBodies ==
    {"\nSome content\n", "X", "", "a{code}b{cod", " {tip}{note}{info}{warning} ",
     "{inf{ti{warnin{not", "\n", "\n  indented\n", "\n\nY"}

\* Admonitions of a kind, in the way of CodeDocs.
AdmotionDocsOf(kind) ==
    LET kw == aatlassian_markup_keyword(kind)
    IN  {"{" \o kw \o o \o "}\nSome content\n{" \o kw \o "}" :
            o \in OptionTexts(AdmotionOptionTexts, MaxOpts)}
        \cup
        {"{" \o kw \o o \o "}" \o b \o c \o a :
            o \in {"", ":title=My title|show_icon=false",
                   ":show_icon=false|title=My title"},
            b \in AdmotionBodies,
            c \in {"{" \o kw \o "}", ""},
            a \in {"", "\n", " \n  "}}

AdmotionDocs == UNION {AdmotionDocsOf(k) : k \in AdmotionKinds}

\* Descriptions of tickets: empty, plain, headings, blocks, unterminated
\* and partial tags.
Descriptions ==
    {Join(ts, "") : ts \in TuplesUpTo(DocItems, 1)}
    \cup {"plain text", "h1. Title\nh2. Sub\n", "{code}\nbody", "{code", "{info:title=",
          "{warning}\nX\n{warning}"}

\* Texts for the heading parser alone: heading lines, and lines that are
\* none: a digit outside 1..6, no digit, no ".", no "\n", text before the
\* "h" or after the line.
HeadingDocs ==
    HeadingLines
    \cup {"h7. seven\n", "h0. zero\n", "h9.\n", "hx. x\n", "h. x\n", "h3 three\n",
          "h3:three\n", "h3", "h3.", "h4. open", "h4.\topen", "h", "", "\n",
          "h2.\n", "h2. \n", "h2. \t \n", "H1. x\n", " h1. x\n", "h1. a\nh2. b\n",
          "h1. a\nrest"}

\* Nodes for the renderers: every variant, a language and a title present
\* and absent, show_icon true and false, contents with and without a
\* closing newline.
RenderNodes ==
    {[variant |-> "PlainText", content |-> "plain"]}
    \cup {[variant |-> v, content |-> c] :
            v \in {"Heading1", "Heading6"}, c \in {"One", ""}}
    \cup {[variant |-> "CodeBlock", language |-> l, content |-> c] :
            l \in {None, Some("python")},
            c \in {"print(1)\n", "Hello", ""}}
    \cup {[variant |-> "Admotion", kind |-> k, title |-> t, show_icon |-> i,
            content |-> "X"] :
            k \in AdmotionKinds, t \in {None, Some("T")}, i \in BOOLEAN}
    \cup {[variant |-> "Admotion", kind |-> "Info", title |-> None,
            show_icon |-> TRUE, content |-> "Some content\n"]}

\* Contents of the file when the RefrenceFinder is made: no reference, one
\* at the start of the file, references on the first and on later lines,
\* near misses.
FileContents ==
    {"", "ABC-1 x", " ABC-1", "x\nDEF-22\n", "\nABC-1",
     "ab GHIJ-3\n\n  KLM-45 NOP-6\n", "AB-1 abc-2 ABC- ABC-x\n"}

\* Contents written to the file later.
WrittenContents == {"", "see XYZ-9\n", "\n\nQRS-10"}

\* The texts transpile_atlassian_markup_to_markdown is called with.
Markups ==
    HeadingLines \cup Docs \cup Descriptions
    \cup {"{code}\nbody", "{code:language=python}\nprint(1)\n{code}",
          "{warning:title=T|show_icon=false}\nX\n{warning}", "{tip}\nX"}

-----------------------------------------------------------------------------
(* The state machine. *)

\* A message of the connection.  A request has an id and a method; params
\* says whether its parameters deserialize, scheme is the scheme of the
\* document's uri, line the line of the position, refrences what
\* get_refrences does for the document ("panic": an expect on the file, or
\* the subtraction of the scan; "hit": a reference holds the position) and
\* jira what get_jira_tickets does ("panic": expect("error in jira") or
\* try_from; "has": the ticket of the reference is in the map).
Message(kind, id, method, params, scheme, line, refrences, jira) ==
    [kind |-> kind, id |-> id, method |-> method, params |-> params,
     scheme |-> scheme, line |-> line, refrences |-> refrences, jira |-> jira]

\* A request, with what its handler does not read left out.
Request(id, method, params, scheme, line, refrences, jira) ==
    Message("request", id, method, params, scheme, line, refrences, jira)

NoMessage == Message("none", 0, "", "ok", "file", 1, "miss", "lacks")

\* GotoDefinition::METHOD, InlayHintRequest::METHOD, HoverRequest::METHOD and
\* DocumentLinkRequest::METHOD.
KnownMethods ==
    {"textDocument/definition", "textDocument/inlayHint", "textDocument/hover",
     "textDocument/documentLink"}

\* The messages the connection can hold, with the id a request would have.
Messages(id) ==
    {Message("notification", 0, "textDocument/didOpen", "ok", "file", 1, "miss", "lacks"),
     Message("response", id, "", "ok", "file", 1, "miss", "lacks"),
     Request(id, "shutdown", "ok", "file", 1, "miss", "lacks"),
     Request(id, "workspace/symbol", "ok", "file", 1, "miss", "lacks")}
    \cup {Request(id, m, "bad", "file", 1, "miss", "lacks") : m \in KnownMethods}
    \cup {Request(id, "textDocument/definition", "ok", "file", l, "miss", "lacks") :
            l \in {0, 1}}
    \cup {Request(id, "textDocument/documentLink", "ok", "file", 1, "miss", "lacks")}
    \cup {Request(id, "textDocument/inlayHint", "ok", sc, 1, r, j) :
            sc \in {"file", "output"}, r \in {"panic", "hit"},
            j \in {"panic", "has"}}
    \cup {Request(id, "textDocument/hover", "ok", sc, 1, r, j) :
            sc \in {"file", "output"}, r \in {"panic", "miss", "hit"},
            j \in {"panic", "has", "lacks"}}

NoServer == [pc |-> "none", msg |-> NoMessage, sent |-> <<>>, taken |-> 0,
             overflow_checks |-> FALSE]

NoParsed == [parser |-> "none", res |-> "none", out |-> NoOut, opts |-> None,
             from |-> 0, raw |-> "none", pos |-> 0]

NoPushed == [node |-> NoOut, before |-> "", after |-> ""]

NoFinder == [pc |-> "none", file_contents |-> "", then |-> "", refrences |-> <<>>,
             overflow_checks |-> FALSE, calls |-> 0]

NoIssue == [summary |-> "none", description |-> "none", status |-> "none"]

NoTicket == [res |-> "none", title |-> "", description |-> ""]

Init ==
    /\ markup = ""
    /\ call = "none"
    /\ arg = ""
    /\ pc = "idle"
    /\ pos = 0
    /\ ast = <<>>
    /\ idx = 0
    /\ acc = ""
    /\ output = ""
    /\ parsed = NoParsed
    /\ issue = NoIssue
    /\ ticket = NoTicket
    /\ pushed = NoPushed
    /\ file = <<>>
    /\ cache = None
    /\ finder = NoFinder
    /\ server = NoServer

\* transpile_atlassian_markup_to_markdown(m) is called: the driver starts at
\* the first character with no node.
TranspileCall ==
    /\ call = "none"
    /\ \E m \in Markups :
        /\ markup' = m
        /\ arg' = m
    /\ call' = "transpile"
    /\ pc' = "parsing"
    /\ pos' = 1
    /\ ast' = <<>>
    /\ UNCHANGED <<server, pushed, file, cache, finder, idx, acc, output, parsed, issue, ticket>>

\* build_atlassian_markup_parser, one round of heading.repeated(): a heading
\* at pos is collected.
RepeatedHeading ==
    /\ pc = "parsing"
    /\ \E r \in {build_atlassian_markup_heading_parser(arg, pos)} :
        /\ r.res = "ok"
        /\ ast' = Append(ast, r.out)
        /\ pos' = r.pos
    /\ UNCHANGED <<server, pushed, file, cache, finder, markup, call, arg, pc, idx, acc, output, parsed, issue, ticket>>

\* The driver's parser, as written: the loop ends at the first position with
\* no heading, and the input must end there.
DriverAccepts(inp, p) ==
    /\ build_atlassian_markup_heading_parser(inp, p).res = "err"
    /\ p = Len(inp) + 1

\* No heading at pos, which is the end of input: parse returns the nodes,
\* unwrap gives them, and the fold starts from the empty String.
ParseOk ==
    /\ pc = "parsing"
    /\ DriverAccepts(arg, pos)
    /\ pc' = "folding"
    /\ idx' = 1
    /\ acc' = ""
    /\ UNCHANGED <<server, pushed, file, cache, finder, markup, call, arg, pos, ast, output, parsed, issue, ticket>>

\* No heading at pos, which is not the end of input: parse returns errors
\* and unwrap panics.  Nothing catches the panic.
ParseUnwrapPanic ==
    /\ pc = "parsing"
    /\ build_atlassian_markup_heading_parser(arg, pos).res # "ok"
    /\ ~DriverAccepts(arg, pos)
    /\ pc' = "panicked"
    /\ UNCHANGED <<server, pushed, file, cache, finder, markup, call, arg, pos, ast, idx, acc, output, parsed, issue, ticket>>

\* One step of the fold: acc + node.to_markdown_string().
FoldStep ==
    /\ pc = "folding"
    /\ idx <= Len(ast)
    /\ \E r \in {to_markdown_string(ast[idx])} :
           IF r.panic
           THEN /\ pc' = "panicked"
                /\ UNCHANGED <<idx, acc>>
           ELSE /\ acc' = acc \o r.text
                /\ idx' = idx + 1
                /\ pc' = pc
    /\ UNCHANGED <<server, pushed, file, cache, finder, markup, call, arg, pos, ast, output, parsed, issue, ticket>>

\* The fold is over: the accumulator is returned.
FoldReturn ==
    /\ pc = "folding"
    /\ idx > Len(ast)
    /\ pc' = "done"
    /\ output' = acc
    /\ UNCHANGED <<server, pushed, file, cache, finder, markup, call, arg, pos, ast, idx, acc, parsed, issue, ticket>>

\* What Parser::parse(markup) of a block parser gives: the node, the options
\* the parser read on the way, and where the content starts; raw is what
\* the parser did from the first character on, before parse looked for the
\* end of input, and pos the input position it left.
ParsedOf(name, parts, raw, r) ==
    [parser |-> name, res |-> r.res, out |-> r.out,
     opts |-> IF r.res = "ok" THEN parts.opts ELSE None,
     from |-> IF r.res = "ok" THEN parts.from ELSE 0,
     raw |-> raw.res, pos |-> raw.pos]

\* build_atlassian_markup_heading_parser().parse(m).
ParseHeading ==
    /\ call = "none"
    /\ \E m \in HeadingDocs :
        /\ markup' = m
        /\ \E raw \in {build_atlassian_markup_heading_parser(m, 1)} :
            parsed' = ParsedOf("Heading", NoParts("ok", 1), raw, parse(raw, m))
    /\ call' = "heading"
    /\ UNCHANGED <<server, pushed, file, cache, finder, arg, pc, pos, ast, idx, acc, output, issue, ticket>>

\* build_code_block_parser().parse(m), as the tests call it.
ParseCodeBlock ==
    /\ call = "none"
    /\ \E m \in CodeDocs :
        /\ markup' = m
        /\ \E parts \in {CodeBlockParts(m, 1)},
              raw \in {build_code_block_parser(m, 1)} :
                parsed' = ParsedOf("CodeBlock", parts, raw, parse(raw, m))
    /\ call' = "code_block"
    /\ UNCHANGED <<server, pushed, file, cache, finder, arg, pc, pos, ast, idx, acc, output, issue, ticket>>

\* build_admotion_parser(kind).parse(m), as the tests call it.
ParseAdmotion ==
    /\ call = "none"
    /\ \E m \in AdmotionDocs, kind \in AdmotionKinds :
        /\ markup' = m
        /\ \E parts \in {AdmotionParts(kind, m, 1)},
              raw \in {build_admotion_parser(kind, m, 1)} :
                parsed' = ParsedOf(kind, parts, raw, parse(raw, m))
    /\ call' = "admotion"
    /\ UNCHANGED <<server, pushed, file, cache, finder, arg, pc, pos, ast, idx, acc, output, issue, ticket>>

\* The vectors of nodes the fold is run on.
RenderAsts == TuplesUpTo(RenderNodes, MaxLines)

\* The fold of transpile_atlassian_markup_to_markdown over a vector of nodes
\* of any variant: it starts from the empty String.
FoldCall ==
    /\ call = "none"
    /\ ast' \in RenderAsts
    /\ call' = "render"
    /\ pc' = "folding"
    /\ idx' = 1
    /\ acc' = ""
    /\ UNCHANGED <<server, pushed, file, cache, finder, markup, arg, pos, output, parsed, issue, ticket>>

\* The Strings push_content_onto_string is called with as target.
PushTargets == {"", "# One\n", "no newline"}

\* node.push_content_onto_string(&mut target).
PushContentOntoString ==
    /\ call = "none"
    /\ \E node \in RenderNodes, target \in PushTargets :
        pushed' = [node |-> node, before |-> target,
                   after |-> push_content_onto_string(node, target)]
    /\ call' = "push"
    /\ UNCHANGED <<server, file, cache, finder, markup, arg, pc, pos, ast, idx, acc, output, parsed, issue, ticket>>

\* The content of the file and its modification time: file holds every
\* content written, the last one is on disk, and the time of a content is
\* its index, so every write makes the time later.
Contents == file[Len(file)]
Modified == Len(file)

\* RefrenceFinder::new(), for a file that is on disk: the map is empty.  The
\* build has overflow checks (a debug build) or not (a release build).
New ==
    /\ call = "none"
    /\ call' = "finder"
    /\ \E c \in FileContents : file' = <<c>>
    /\ cache' = None
    /\ \E b \in BOOLEAN :
        finder' = [NoFinder EXCEPT !.pc = "idle", !.overflow_checks = b]
    /\ UNCHANGED <<server, pushed, markup, arg, pc, pos, ast, idx, acc, output, parsed, issue, ticket>>

\* Another process (the editor) writes the file.
WriteFile ==
    /\ call = "finder"
    /\ finder.pc # "panicked"
    /\ Len(file) < 1 + MaxWrites
    /\ \E c \in WrittenContents : file' = Append(file, c)
    /\ UNCHANGED <<server, pushed, cache, finder, markup, call, arg, pc, pos, ast, idx, acc, output, parsed, issue, ticket>>

\* get_refrences(file_path) is called: without an entry for the path the
\* file is scanned first (lines 51-53), and then the times are compared.
GetRefrences ==
    /\ call = "finder"
    /\ finder.pc \in {"idle", "returned"}
    /\ finder.calls < MaxCalls
    /\ finder' = [finder EXCEPT !.calls = @ + 1,
                                !.pc = IF cache = None THEN "read" ELSE "check",
                                !.then = "check"]
    /\ UNCHANGED <<server, pushed, file, cache, markup, call, arg, pc, pos, ast, idx, acc, output, parsed, issue, ticket>>

\* find_refrences_in_file, line 70: fs::read_to_string.
ReadToString ==
    /\ call = "finder"
    /\ finder.pc = "read"
    /\ finder' = [finder EXCEPT !.file_contents = Contents, !.pc = "scan"]
    /\ UNCHANGED <<server, pushed, file, cache, markup, call, arg, pc, pos, ast, idx, acc, output, parsed, issue, ticket>>

\* find_refrences_in_file, lines 71-106: fs::metadata(..).modified(), the
\* scan of what was read, and the insert into the map.  After the scan of
\* line 60 get_refrences returns the entry.
FindRefrencesInFile ==
    /\ call = "finder"
    /\ finder.pc = "scan"
    /\ \E r \in {Scan(finder.file_contents, finder.overflow_checks)} :
        IF r.res = "panic"
        THEN /\ finder' = [finder EXCEPT !.pc = "panicked"]
             /\ cache' = cache
        ELSE /\ cache' = Some([last_modified_time |-> Modified,
                               refrences |-> r.refrences])
             /\ finder' = [finder EXCEPT
                              !.pc = IF finder.then = "check" THEN "check"
                                     ELSE "returned",
                              !.refrences = IF finder.then = "check" THEN @
                                            ELSE r.refrences]
    /\ UNCHANGED <<server, pushed, file, markup, call, arg, pc, pos, ast, idx, acc, output, parsed, issue, ticket>>

\* get_refrences, lines 54-63: the time of the entry against the time of
\* the file; an older entry is scanned again, and else the entry is
\* returned.
CompareModified ==
    /\ call = "finder"
    /\ finder.pc = "check"
    /\ finder' = IF cache[1].last_modified_time < Modified
                 THEN [finder EXCEPT !.pc = "read", !.then = "return"]
                 ELSE [finder EXCEPT !.pc = "returned",
                                     !.refrences = cache[1].refrences]
    /\ UNCHANGED <<server, pushed, file, cache, markup, call, arg, pc, pos, ast, idx, acc, output, parsed, issue, ticket>>

\* What try_from pushes onto the description before it calls the transpiler.
Banner == "\n\nHere is transpiled:\n\n"

\* The text the closure of try_from hands to the transpiler: x.as_str() is
\* read after the banner was pushed onto x.
TranspilerArgument(x) == x \o Banner

\* The shapes of a field of the issue: "missing" is no such field, "null" a
\* JSON null, "malformed" a value from_value rejects, "string" a string.
SummaryShapes == {"missing", "malformed", "string"}
DescriptionShapes == {"missing", "null", "malformed", "string"}

\* "missing": no status field; "malformed": a status that is no object;
\* "noname": an object without "name"; "badname": a name that is no string.
StatusShapes == {"missing", "malformed", "noname", "badname", "ok"}

\* JiraTicket::try_from(ticket), to the call of the transpiler: the summary
\* and the description are read, each malformed one returns Err through ?,
\* a description that is a string gets the banner and is transpiled.
TryFromCall ==
    /\ call = "none"
    /\ \E s \in SummaryShapes, d \in DescriptionShapes, m \in Descriptions :
        LET title == IF s = "string" THEN "summary" ELSE "No title"
        IN  /\ issue' = [summary |-> s, description |-> d, status |-> "unread"]
            /\ markup' = IF d = "string" THEN m ELSE ""
            /\ IF s = "malformed" \/ d = "malformed"
               THEN /\ ticket' = [res |-> "Err", title |-> "", description |-> ""]
                    /\ UNCHANGED <<arg, pc, pos, ast>>
               ELSE IF d = "string"
               THEN /\ ticket' = [res |-> "pending", title |-> title,
                                  description |-> ""]
                    /\ arg' = TranspilerArgument(m)
                    /\ pc' = "parsing"
                    /\ pos' = 1
                    /\ ast' = <<>>
               ELSE /\ ticket' = [res |-> "pending", title |-> title,
                                  description |-> "No description"]
                    /\ UNCHANGED <<arg, pc, pos, ast>>
    /\ call' = "try_from"
    /\ UNCHANGED <<server, pushed, file, cache, finder, idx, acc, output, parsed>>

\* try_from after the description: the status is read.  unwrap panics on a
\* missing status and on a status without a name, ? and the match return
\* Err on a malformed one, and otherwise the ticket is built.
TryFromStatus ==
    /\ call = "try_from"
    /\ ticket.res = "pending"
    /\ pc = "done" \/ issue.description \in {"missing", "null"}
    /\ \E st \in StatusShapes :
        /\ issue' = [issue EXCEPT !.status = st]
        /\ ticket' =
            IF st \in {"missing", "noname"}
            THEN [res |-> "panic", title |-> "", description |-> ""]
            ELSE IF st \in {"malformed", "badname"}
            THEN [res |-> "Err", title |-> "", description |-> ""]
            ELSE [res |-> "Ok", title |-> ticket.title,
                  description |-> IF pc = "done" THEN arg \o output
                                  ELSE ticket.description]
    /\ UNCHANGED <<server, pushed, file, cache, finder, markup, call, arg, pc, pos, ast, idx, acc, output, parsed>>

\* The message with what only its handler reads left out: what is known of
\* it once it was handled.
Handled(msg) ==
    Message(msg.kind, msg.id, msg.method, "ok", "file", 1, "miss", "lacks")

\* The server after the handler of its message ended in pc, with the
\* responses in ids sent.
After(next_pc, ids) ==
    [server EXCEPT !.pc = next_pc, !.msg = Handled(server.msg),
                   !.sent = server.sent \o ids]

\* Server::new, and the call of run_loop.  The build has overflow checks or
\* not.
ServerNew ==
    /\ call = "none"
    /\ call' = "server"
    /\ \E b \in BOOLEAN :
        server' = [NoServer EXCEPT !.pc = "recv", !.overflow_checks = b]
    /\ UNCHANGED <<pushed, file, cache, finder, markup, arg, pc, pos, ast, idx, acc, output, parsed, issue, ticket>>

\* run_loop, line 42: recv() gives the next message.
Recv ==
    /\ call = "server"
    /\ server.pc = "recv"
    /\ server.taken < MaxMessages
    /\ \E m \in Messages(server.taken + 1) :
        server' = [server EXCEPT !.pc = "match", !.msg = m, !.taken = @ + 1]
    /\ UNCHANGED <<pushed, file, cache, finder, markup, call, arg, pc, pos, ast, idx, acc, output, parsed, issue, ticket>>

\* run_loop, line 42: recv() fails, the connection is closed, and ? returns
\* the error.
RecvDisconnected ==
    /\ call = "server"
    /\ server.pc = "recv"
    /\ server' = [server EXCEPT !.pc = "disconnected"]
    /\ UNCHANGED <<pushed, file, cache, finder, markup, call, arg, pc, pos, ast, idx, acc, output, parsed, issue, ticket>>

\* run_loop, lines 46-48: handle_shutdown answers a shutdown request and
\* run_loop returns.
HandleShutdown ==
    /\ call = "server"
    /\ server.pc = "match"
    /\ server.msg.kind = "request"
    /\ server.msg.method = "shutdown"
    /\ server' = After("shutdown", <<server.msg.id>>)
    /\ UNCHANGED <<pushed, file, cache, finder, markup, call, arg, pc, pos, ast, idx, acc, output, parsed, issue, ticket>>

\* run_loop, lines 51-53: a response is logged.
HandleResponse ==
    /\ call = "server"
    /\ server.pc = "match"
    /\ server.msg.kind = "response"
    /\ server' = After("recv", <<>>)
    /\ UNCHANGED <<pushed, file, cache, finder, markup, call, arg, pc, pos, ast, idx, acc, output, parsed, issue, ticket>>

\* handle_notification: a notification is logged.
HandleNotification ==
    /\ call = "server"
    /\ server.pc = "match"
    /\ server.msg.kind = "notification"
    /\ server' = After("recv", <<>>)
    /\ UNCHANGED <<pushed, file, cache, finder, markup, call, arg, pc, pos, ast, idx, acc, output, parsed, issue, ticket>>

\* handle_request is at a request of the method.
AtRequest(method) ==
    /\ call = "server"
    /\ server.pc = "match"
    /\ server.msg.kind = "request"
    /\ server.msg.method = method

\* handle_request, lines 78, 82, 86, 90: cast fails on the parameters of a
\* request of a known method, and ? returns the error from handle_request
\* and from run_loop.
CastError ==
    /\ \E m \in KnownMethods : AtRequest(m)
    /\ server.msg.params = "bad"
    /\ server' = After("cast_error", <<>>)
    /\ UNCHANGED <<pushed, file, cache, finder, markup, call, arg, pc, pos, ast, idx, acc, output, parsed, issue, ticket>>

\* handle_request, line 93: any other method panics.
UnknownRequest ==
    /\ call = "server"
    /\ server.pc = "match"
    /\ server.msg.kind = "request"
    /\ server.msg.method \notin KnownMethods \cup {"shutdown"}
    /\ server' = After("panicked", <<>>)
    /\ UNCHANGED <<pushed, file, cache, finder, markup, call, arg, pc, pos, ast, idx, acc, output, parsed, issue, ticket>>

\* process_goto_definition: position.line - 1 is a subtraction of u32, which
\* panics on line 0 with overflow checks and wraps without; then the
\* response is sent.
ProcessGotoDefinition ==
    /\ AtRequest("textDocument/definition")
    /\ server.msg.params = "ok"
    /\ server' = IF server.overflow_checks /\ server.msg.line - 1 < 0
                 THEN After("panicked", <<>>)
                 ELSE After("recv", <<server.msg.id>>)
    /\ UNCHANGED <<pushed, file, cache, finder, markup, call, arg, pc, pos, ast, idx, acc, output, parsed, issue, ticket>>

\* process_inlay_hint_request: get_jira_tickets, the return for a document
\* of the scheme "output", get_refrences, and the response.
ProcessInlayHintRequest ==
    /\ AtRequest("textDocument/inlayHint")
    /\ server.msg.params = "ok"
    /\ server' = IF server.msg.jira = "panic" THEN After("panicked", <<>>)
                 ELSE IF server.msg.scheme = "output" THEN After("recv", <<>>)
                 ELSE IF server.msg.refrences = "panic" THEN After("panicked", <<>>)
                 ELSE After("recv", <<server.msg.id>>)
    /\ UNCHANGED <<pushed, file, cache, finder, markup, call, arg, pc, pos, ast, idx, acc, output, parsed, issue, ticket>>

\* process_hover_request: the return for a document of the scheme "output",
\* get_refrences, the empty response without a reference at the position,
\* get_jira_tickets, and the hover or the empty response.
ProcessHoverRequest ==
    /\ AtRequest("textDocument/hover")
    /\ server.msg.params = "ok"
    /\ server' = IF server.msg.scheme = "output" THEN After("recv", <<>>)
                 ELSE IF server.msg.refrences = "panic" THEN After("panicked", <<>>)
                 ELSE IF server.msg.refrences = "miss"
                 THEN After("recv", <<server.msg.id>>)
                 ELSE IF server.msg.jira = "panic" THEN After("panicked", <<>>)
                 ELSE After("recv", <<server.msg.id>>)
    /\ UNCHANGED <<pushed, file, cache, finder, markup, call, arg, pc, pos, ast, idx, acc, output, parsed, issue, ticket>>

\* process_document_link_request: it returns at its first line, before the
\* response is built.
ProcessDocumentLinkRequest ==
    /\ AtRequest("textDocument/documentLink")
    /\ server.msg.params = "ok"
    /\ server' = After("recv", <<>>)
    /\ UNCHANGED <<pushed, file, cache, finder, markup, call, arg, pc, pos, ast, idx, acc, output, parsed, issue, ticket>>

Next ==
    \/ TranspileCall
    \/ RepeatedHeading
    \/ ParseOk
    \/ ParseUnwrapPanic
    \/ FoldStep
    \/ FoldReturn
    \/ ParseHeading
    \/ ParseCodeBlock
    \/ ParseAdmotion
    \/ FoldCall
    \/ PushContentOntoString
    \/ TryFromCall
    \/ TryFromStatus
    \/ New
    \/ WriteFile
    \/ GetRefrences
    \/ ReadToString
    \/ FindRefrencesInFile
    \/ CompareModified
    \/ ServerNew
    \/ Recv
    \/ RecvDisconnected
    \/ HandleShutdown
    \/ HandleResponse
    \/ HandleNotification
    \/ CastError
    \/ UnknownRequest
    \/ ProcessGotoDefinition
    \/ ProcessInlayHintRequest
    \/ ProcessHoverRequest
    \/ ProcessDocumentLinkRequest

Spec == Init /\ [][Next]_vars

-----------------------------------------------------------------------------
(* Headings through the transpiler. *)

\* n times the text t.
RECURSIVE Repeat(_, _)
Repeat(t, n) == IF n = 0 THEN "" ELSE t \o Repeat(t, n - 1)

\* m is "hN. " + T + "\n" for a level N in 1..6 and a text T that holds no
\* newline and does not start with a space or a tab.
IsHeadingInput(m) ==
    /\ Len(m) >= 5
    /\ CharAt(m, 1) = "h"
    /\ CharAt(m, 2) \in HeadingLevels
    /\ SubSeq(m, 3, 4) = ". "
    /\ CharAt(m, 5) \notin {" ", "\t"}
    /\ \A i \in 5..Len(m) : CharAt(m, i) = "\n" <=> i = Len(m)

\* C1: for every level N in 1..6 and every text T without a newline that
\* does not start with a space or a tab, the transpiler called with
\* "hN. " + T + "\n" does not panic and returns N times "#", one space, T and
\* one newline.
C1_HeadingLine ==
    (call = "transpile" /\ IsHeadingInput(markup)) =>
        /\ pc # "panicked"
        /\ pc = "done" =>
            output = Repeat("#", to_digit(CharAt(markup, 2))) \o " "
                     \o SubSeq(markup, 5, Len(markup) - 1) \o "\n"

\* A level 5 heading with a text of several words was transpiled.
C1_Witness ==
    /\ call = "transpile"
    /\ pc = "done"
    /\ IsHeadingInput(markup)
    /\ CharAt(markup, 2) = "5"
    /\ Len(markup) > 10
    /\ output = "##### " \o SubSeq(markup, 5, Len(markup))

-----------------------------------------------------------------------------
(* The driver the specification describes. *)

\* One line as plain text: to the next "\n", which is consumed, or to the end
\* of input.
PlainLineAt(inp, p) ==
    With(SkipUntil(inp, p, {"\n"}), LAMBDA e :
        Ok(IF e <= Len(inp) THEN e + 1 ELSE e,
           [variant |-> "PlainText", content |-> SubSeq(inp, p, e - 1)]))

\* The grammars in the order the specification gives: heading, code block,
\* the four admonitions.
BlockGrammarAt(k, inp, p) ==
    CASE k = 1 -> build_atlassian_markup_heading_parser(inp, p)
      [] k = 2 -> build_code_block_parser(inp, p)
      [] k = 3 -> build_admotion_parser("Info", inp, p)
      [] k = 4 -> build_admotion_parser("Tip", inp, p)
      [] k = 5 -> build_admotion_parser("Warning", inp, p)
      [] k = 6 -> build_admotion_parser("Note", inp, p)

\* The node at p: that of the first grammar, from the k-th on, that matches,
\* and else one plain line.
RECURSIVE SpecifiedNodeAt(_, _, _)
SpecifiedNodeAt(inp, p, k) ==
    IF k > 6 THEN PlainLineAt(inp, p)
    ELSE With(BlockGrammarAt(k, inp, p), LAMBDA r :
            IF r.res = "ok" THEN r ELSE SpecifiedNodeAt(inp, p, k + 1))

\* The render of the document from p on: each node's render, one after the
\* other, each with the one newline of the per-node wrapper.
RECURSIVE SpecifiedRender(_, _)
SpecifiedRender(inp, p) ==
    IF p > Len(inp) THEN ""
    ELSE With(SpecifiedNodeAt(inp, p, 1), LAMBDA r :
            push_content_onto_string(r.out, "") \o SpecifiedRender(inp, r.pos))

\* C2: for every input made of recognized blocks (headings, code blocks,
\* admonitions) and plain lines, the transpiler returns and what it returns
\* is the concatenation, in document order and with nothing added, of the
\* blocks' renders and of each plain line followed by one newline, the
\* grammars being tried at every position in the order heading, code block,
\* the four admonitions, plain line.
C2_BlocksAndPlainLines ==
    (call = "transpile" /\ markup \in Docs /\ pc \in {"done", "panicked"}) =>
        /\ pc = "done"
        /\ output = SpecifiedRender(markup, 1)

\* m opens a code block or an admonition at its start and holds no closing
\* tag of it.
IsUnterminated(m) ==
    \E kw \in {"code"} \cup {aatlassian_markup_keyword(k) : k \in AdmotionKinds} :
        /\ JustAt(m, 1, "{" \o kw)
        /\ CharAt(m, 2 + Len(kw)) \in {"}", ":"}
        /\ \A i \in (2 + Len(kw))..Len(m) : ~JustAt(m, i, "{" \o kw \o "}")

\* C3: for every input that opens a code block or an admonition and never
\* closes it, such as "{code}\nbody", the transpiler does not panic, and it
\* gives no markdown.
C3_UnterminatedBlockIsAnError ==
    (call = "transpile" /\ IsUnterminated(markup)) =>
        /\ pc # "panicked"
        /\ output = ""

\* C4: for every description of a ticket (empty, plain text, partial or
\* unterminated tags), building the JiraTicket does not crash in the
\* transpiler: a failure to transpile is replaced by the raw text or a
\* placeholder.
C4_TicketBuildNeverCrashes ==
    (call = "try_from" /\ issue.description = "string") => pc # "panicked"

-----------------------------------------------------------------------------
(* Options of a block. *)

\* The options a block parser read: those of the vector, none without one.
OptionsRead == IF parsed.opts = None THEN <<>> ELSE parsed.opts[1]

\* The positions, in the order written, of the options of a kind.
OptionsOfKind(kind) == {i \in 1..Len(OptionsRead) : OptionsRead[i].kind = kind}

\* The value of the leftmost option of a kind, None without one.
Leftmost(kind) ==
    IF OptionsOfKind(kind) = {} THEN None
    ELSE Some(OptionsRead[CHOOSE i \in OptionsOfKind(kind) :
                            \A j \in OptionsOfKind(kind) : i <= j].value)

\* Two options of a kind were read, with different values.
Repeated(kind) ==
    \E i, j \in OptionsOfKind(kind) : OptionsRead[i].value # OptionsRead[j].value

C6_LeftmostTitleAndIcon ==
    (parsed.parser \in AdmotionKinds /\ parsed.res = "ok") =>
        /\ parsed.out.kind = parsed.parser
        /\ parsed.out.title = Leftmost("Title")
        /\ parsed.out.show_icon = unwrap_or_true(Leftmost("ShowIcon"))

\* An admonition with two different title= options and a show_icon= option
\* between them was parsed.
C6_Witness ==
    /\ parsed.parser \in AdmotionKinds
    /\ parsed.res = "ok"
    /\ Len(OptionsRead) = 3
    /\ OptionsRead[1].kind = "Title"
    /\ OptionsRead[2].kind = "ShowIcon"
    /\ OptionsRead[3].kind = "Title"
    /\ OptionsRead[1].value # OptionsRead[3].value

-----------------------------------------------------------------------------
(* The content of a block. *)

\* The closing tag of the block parser that was called.
ClosingTag ==
    IF parsed.parser = "CodeBlock" THEN "{code}" ELSE end_tag(parsed.parser)

\* The closing tags of the other block parsers.
OtherClosingTags ==
    ({"{code}"} \cup {end_tag(k) : k \in AdmotionKinds}) \ {ClosingTag}

\* t occurs in text.
Occurs(t, text) == \E i \in 1..Len(text) : JustAt(text, i, t)

\* C7: the content of a parsed code block or admonition holds no occurrence
\* of the block's closing tag, the block ends at the first closing tag after
\* the opening tag, and the content is the text in between, unchanged, the
\* closing tags of other keywords included.
C7_ContentEndsAtFirstClosingTag ==
    (parsed.parser \in {"CodeBlock"} \cup AdmotionKinds /\ parsed.res = "ok") =>
        /\ ~Occurs(ClosingTag, parsed.out.content)
        /\ parsed.out.content =
            SubSeq(markup, parsed.from, parsed.from + Len(parsed.out.content) - 1)
        /\ JustAt(markup, parsed.from + Len(parsed.out.content), ClosingTag)
        /\ \A i \in parsed.from..(parsed.from + Len(parsed.out.content) - 1) :
            ~JustAt(markup, i, ClosingTag)

\* A block was parsed whose content holds the closing tag of another keyword.
C7_Witness ==
    /\ parsed.parser \in {"CodeBlock"} \cup AdmotionKinds
    /\ parsed.res = "ok"
    /\ \E t \in OtherClosingTags : Occurs(t, parsed.out.content)

-----------------------------------------------------------------------------
(* The code blocks of the tests. *)

\* The opening tags of the tests, from the keyword to the brace.
TestOptionTexts == {"", ":language=python", ":title=This|language=python"}

\* C8: a code block written as the opening tag, a newline, an indented line
\* L, a newline, the indented closing tag and whitespace parses, and its
\* content is L and one newline.
C8_IndentationIsNotContent ==
    \A o \in TestOptionTexts :
        (call = "code_block"
         /\ markup = "{code" \o o \o "}\n    This is my code\n    {code}\n    ") =>
            /\ parsed.res = "ok"
            /\ parsed.out.content = "This is my code\n"

\* The options of CodeOptionTexts the grammar accepts.
ValidCodeOptionTexts ==
    {"title=This is my title", "title=T", "linenumbers=true", "language=python",
     "language=js", "firstline=0001", "firstline=18446744073709551615",
     "collapse=false"}

\* C9: a code block parses with valid options in any number and order, title=
\* as the last one included, and the value of a title ends before the brace
\* of the opening tag.
C9_OptionsInAnyOrder ==
    \A o \in OptionTexts(ValidCodeOptionTexts, MaxOpts) :
        (call = "code_block"
         /\ markup = "{code" \o o \o "}\nThis is my code\n{code}") =>
            /\ parsed.res = "ok"
            /\ \A i \in OptionsOfKind("Title") : ~Occurs("}", OptionsRead[i].value)

\* C10: a firstline= of base-10 digits is accepted when the number fits in 64
\* unsigned bits, makes the parse fail when it is greater than 2^64 - 1, and
\* never makes the parser panic.
C10_FirstlineFitsOrFails ==
    /\ parsed.res # "panic"
    /\ \A d \in {"0001", "18446744073709551615", "18446744073709551616"} :
        (call = "code_block"
         /\ markup = "{code:firstline=" \o d \o "}\nThis is my code\n{code}") =>
            parsed.res = IF d = "18446744073709551616" THEN "err" ELSE "ok"

-----------------------------------------------------------------------------
(* The render of a node in the fold. *)

\* The last n characters of text.
Suffix(text, n) == SubSeq(text, Len(text) - n + 1, Len(text))

\* The node the fold rendered last.
LastRendered == ast[idx - 1]

\* Three backticks, the language if present, a newline, the content, three
\* backticks and the newline of the per-node wrapper.
FencedBlock(node) ==
    Fence \o (IF node.language = None THEN "" ELSE node.language[1]) \o "\n"
          \o node.content \o Fence \o "\n"

\* C11: the text the fold of the whole-document render emits for a CodeBlock
\* node is three backticks, the language if present, one newline, the
\* content unchanged, three backticks and exactly one newline; no newline
\* stands between the content and the closing fence.
C11_CodeBlockRender ==
    (call = "render" /\ idx > 1 /\ LastRendered.variant = "CodeBlock") =>
        /\ Len(acc) >= Len(FencedBlock(LastRendered))
        /\ Suffix(acc, Len(FencedBlock(LastRendered))) = FencedBlock(LastRendered)

\* The keyword of a kind in capitals.
UpperKeyword(kind) ==
    CASE kind = "Info" -> "INFO"
      [] kind = "Tip" -> "TIP"
      [] kind = "Warning" -> "WARNING"
      [] kind = "Note" -> "NOTE"

\* The marker of the kind, the title in bold when there is one, the content
\* and one newline, with nothing in between.
Callout(node) ==
    "> [!" \o UpperKeyword(node.kind) \o "]"
    \o (IF node.title = None THEN "" ELSE "**" \o node.title[1] \o "**")
    \o node.content \o "\n"

\* C12: the render the transpiler's fold emits for an admonition of kind K
\* with content C is "> [!" + K in capitals + "]", "**" + title + "**" when
\* there is a title, C and one newline, whatever show_icon is; rendering an
\* admonition does not panic, in the fold and for the two admonitions of
\* the specification's examples.
C12_AdmotionRender ==
    /\ (call = "render" /\ pc = "panicked") => ast[idx].variant # "Admotion"
    /\ (call = "render" /\ idx > 1 /\ LastRendered.variant = "Admotion") =>
            /\ Len(acc) >= Len(Callout(LastRendered))
            /\ Suffix(acc, Len(Callout(LastRendered))) = Callout(LastRendered)
    /\ (call = "transpile"
        /\ markup \in {"{warning:title=T|show_icon=false}\nX\n{warning}",
                       "{info}\nX\n{info}\n"}) =>
            /\ pc # "panicked"
            /\ pc = "done" =>
                output = IF CharAt(markup, 2) = "w" THEN "> [!WARNING]**T**X\n\n"
                         ELSE "> [!INFO]X\n\n"

-----------------------------------------------------------------------------
(* Admonitions alone. *)

\* The option lists with at most one title= and at most one show_icon=, in
\* both orders: the text from the keyword to the brace, and what it gives.
OneOfEach ==
    {[text |-> "", title |-> None, show_icon |-> None],
     [text |-> ":", title |-> None, show_icon |-> None]}
    \cup {[text |-> ":title=" \o t, title |-> Some(t), show_icon |-> None] :
            t \in {"My title", "T"}}
    \cup {[text |-> ":show_icon=" \o i, title |-> None,
           show_icon |-> Some(i = "true")] : i \in {"true", "false"}}
    \cup {[text |-> ":title=" \o t \o "|show_icon=" \o i, title |-> Some(t),
           show_icon |-> Some(i = "true")] :
            t \in {"My title", "T"}, i \in {"true", "false"}}
    \cup {[text |-> ":show_icon=" \o i \o "|title=" \o t, title |-> Some(t),
           show_icon |-> Some(i = "true")] :
            t \in {"My title", "T"}, i \in {"true", "false"}}

\* Bodies of admonitions, written after the newline that follows the
\* opening tag.
BodiesAfterNewline ==
    {"Some content\n", "", "X", "  indented\n", "\nY", "a{code}b{cod"}

\* The index of the first character of b that is no whitespace, Len(b) + 1
\* when there is none.
FirstNonWhitespace(b) ==
    CHOOSE i \in 1..(Len(b) + 1) :
        /\ \A j \in 1..(i - 1) : CharAt(b, j) \in Whitespace
        /\ i = Len(b) + 1 \/ CharAt(b, i) \notin Whitespace

\* b without the whitespace it starts with.
WithoutLeadingWhitespace(b) == SubSeq(b, FirstNonWhitespace(b), Len(b))

\* The admonition parser of kind was called with the opening tag of the
\* kind and the options o, a newline, the body b and the closing tag.
AdmotionOf(kind, o, b) ==
    /\ call = "admotion"
    /\ parsed.parser = kind
    /\ markup = "{" \o aatlassian_markup_keyword(kind) \o o.text \o "}\n" \o b
                \o "{" \o aatlassian_markup_keyword(kind) \o "}"

\* The node the claim describes but for its content.
IsAdmotionOf(kind, o) ==
    /\ parsed.res = "ok"
    /\ parsed.out.variant = "Admotion"
    /\ parsed.out.kind = kind
    /\ parsed.out.title = o.title
    /\ parsed.out.show_icon = (IF o.show_icon = None THEN TRUE ELSE o.show_icon[1])

\* C13, as stated: for each kind, the parser on "{K[:options]}\n" + body +
\* "{K}" yields an Admotion of the kind with the title= value or no title,
\* the show_icon= value or true, and the body as its content, title= before
\* or after show_icon=.
C13_AdmotionContentIsBody ==
    \A kind \in AdmotionKinds, o \in OneOfEach, b \in BodiesAfterNewline :
        AdmotionOf(kind, o, b) =>
            /\ IsAdmotionOf(kind, o)
            /\ parsed.out.content = b

\* C13, amended: the same, the content being the body without the
\* whitespace it starts with.
C13_AdmotionNode ==
    \A kind \in AdmotionKinds, o \in OneOfEach, b \in BodiesAfterNewline :
        AdmotionOf(kind, o, b) =>
            /\ IsAdmotionOf(kind, o)
            /\ parsed.out.content = WithoutLeadingWhitespace(b)

\* An admonition with show_icon= before title= and an indented body was
\* parsed.
C13_Witness ==
    /\ \E kind \in AdmotionKinds, o \in OneOfEach :
        /\ AdmotionOf(kind, o, "  indented\n")
        /\ o.text = ":show_icon=false|title=My title"
    /\ parsed.res = "ok"
    /\ parsed.out.show_icon = FALSE
    /\ parsed.out.content = "indented\n"

\* Whitespace written after a closing tag.
TrailingWhitespace == {"\n", " \n  "}

\* markup without its last n characters.
WithoutLast(n) == SubSeq(markup, 1, Len(markup) - n)

\* C14: an admonition whose closing tag is followed by whitespace or
\* newlines parses, and to the node of the same admonition with nothing
\* after the closing tag.
C14_WhitespaceAfterClosingTag ==
    \A kind \in AdmotionKinds, a \in TrailingWhitespace :
        (/\ call = "admotion"
         /\ parsed.parser = kind
         /\ Len(markup) >= Len(end_tag(kind) \o a)
         /\ Suffix(markup, Len(end_tag(kind) \o a)) = end_tag(kind) \o a
         /\ parse(build_admotion_parser(kind, WithoutLast(Len(a)), 1),
                  WithoutLast(Len(a))).res = "ok") =>
            /\ parsed.res = "ok"
            /\ parsed.out = build_admotion_parser(kind, WithoutLast(Len(a)), 1).out

-----------------------------------------------------------------------------
(* Failures of the grammars. *)

\* The parser that was called alone produced no node and left the input
\* position where it started.
FailedInPlace ==
    /\ parsed.raw = "err"
    /\ parsed.res = "err"
    /\ parsed.out = NoOut
    /\ parsed.pos = 1

\* markup is "h", a level in 1..6, ".", spaces and tabs only, and "\n".
IsEmptyHeading ==
    /\ Len(markup) >= 4
    /\ CharAt(markup, 1) = "h"
    /\ CharAt(markup, 2) \in HeadingLevels
    /\ CharAt(markup, 3) = "."
    /\ \A i \in 4..(Len(markup) - 1) : CharAt(markup, i) \in InlineWhitespace
    /\ CharAt(markup, Len(markup)) = "\n"

\* C15: the heading grammar produces no node and consumes no input when the
\* character after "h" is no digit in 1..6, when the "." is missing, or when
\* the line has no newline; it accepts a heading with an empty text; and it
\* never reaches the panic of heading_ast_node_from_count, alone or in the
\* driver.
C15_HeadingFailures ==
    /\ call = "heading" =>
        /\ parsed.raw # "panic"
        /\ CharAt(markup, 2) \notin HeadingLevels => FailedInPlace
        /\ CharAt(markup, 3) # "." => FailedInPlace
        /\ ~Occurs("\n", markup) => FailedInPlace
        /\ IsEmptyHeading =>
            /\ parsed.res = "ok"
            /\ parsed.out.content = ""
            /\ parsed.out.variant = "Heading" \o CharAt(markup, 2)
    /\ (call \in {"transpile", "try_from"} /\ pc \in {"parsing", "panicked"}) =>
        build_atlassian_markup_heading_parser(arg, pos).res # "panic"

\* The heading parser was called on a line of level 7 and failed in place.
C15_Witness ==
    /\ call = "heading"
    /\ markup = "h7. seven\n"
    /\ FailedInPlace

\* The newlines of arg before position p.
NewlinesBefore(p) == Cardinality({i \in 1..(p - 1) : CharAt(arg, i) = "\n"})

\* The newlines of a text.
Newlines(text) == Cardinality({i \in 1..Len(text) : CharAt(text, i) = "\n"})

-----------------------------------------------------------------------------
(* The two renderers. *)

\* The first n nodes pushed onto an empty String, one after the other.
RECURSIVE PushedUpTo(_, _)
PushedUpTo(nodes, n) ==
    IF n = 0 THEN ""
    ELSE push_content_onto_string(nodes[n], PushedUpTo(nodes, n - 1))

\* C17: for every node of every variant, to_markdown_string returns the text
\* push_content_onto_string appends, so a vector of nodes rendered through
\* the fold is the text that pushing its nodes onto an empty String gives,
\* and where the one returns the other does.
C17_RenderersAgree ==
    /\ call = "render" =>
        /\ pc # "panicked"
        /\ pc = "done" => output = PushedUpTo(ast, Len(ast))
    /\ call = "push" =>
        /\ ~to_markdown_string(pushed.node).panic
        /\ pushed.after = pushed.before \o to_markdown_string(pushed.node).text

-----------------------------------------------------------------------------
(* The description of a ticket. *)

\* The markdown of a text of heading lines, from position p on.
RECURSIVE HeadingsRendered(_, _)
HeadingsRendered(inp, p) ==
    IF build_atlassian_markup_heading_parser(inp, p).res # "ok" THEN ""
    ELSE With(build_atlassian_markup_heading_parser(inp, p), LAMBDA r :
            to_markdown_string(r.out).text \o HeadingsRendered(inp, r.pos))

\* C18: when a JiraTicket is built from an issue whose description is D, the
\* transpiler is called on exactly D and the ticket's description is D, the
\* banner and the markdown of D; when the issue has no description, the
\* ticket's description is "No description" and the transpiler is not
\* called.
C18_TranspilesTheDescription ==
    call = "try_from" =>
        /\ issue.description = "string" =>
            /\ pc # "idle" => arg = markup
            /\ ticket.res = "Ok" =>
                ticket.description = markup \o Banner \o HeadingsRendered(markup, 1)
        /\ issue.description \in {"missing", "null"} =>
            /\ pc = "idle"
            /\ ticket.res \in {"pending", "Ok"} =>
                ticket.description = "No description"

-----------------------------------------------------------------------------
(* The cache of the reference finder. *)

\* The references of the v-th content of the file, as this build scans them.
RefrencesAt(v) == Scan(file[v], finder.overflow_checks).refrences

\* C19: for every interleaving of writes to the file with calls of
\* get_refrences, the entry of the cache never pairs a modification time
\* with the references of a content older than that time; and a call that
\* returns with an entry as recent as the file returns the references of
\* the content on disk.
C19_CacheIsNotStale ==
    (call = "finder" /\ cache # None) =>
        /\ \E v \in cache[1].last_modified_time..Modified :
            cache[1].refrences = RefrencesAt(v)
        /\ (finder.pc = "returned" /\ cache[1].last_modified_time = Modified) =>
            finder.refrences = RefrencesAt(Modified)

-----------------------------------------------------------------------------
(* The ranges of the references. *)

\* s is where a ticket starts in text and e the position after it: three or
\* more capitals that no capital precedes, "-", and all the digits that
\* follow, at least one.
IsTicket(text, s, e) ==
    /\ s = 1 \/ CharAt(text, s - 1) \notin UpperLetters
    /\ \E l \in (s + 3)..(e - 2) :
        /\ \A i \in s..(l - 1) : CharAt(text, i) \in UpperLetters
        /\ CharAt(text, l) = "-"
        /\ \A i \in (l + 1)..(e - 1) : CharAt(text, i) \in Digits
    /\ CharAt(text, e) \notin Digits

\* The position of the first character of the line of position s.
LineStart(text, s) ==
    IF \E k \in 1..(s - 1) : CharAt(text, k) = "\n"
    THEN 1 + CHOOSE k \in 1..(s - 1) :
                /\ CharAt(text, k) = "\n"
                /\ \A j \in (k + 1)..(s - 1) : CharAt(text, j) # "\n"
    ELSE 1

\* The reference of the ticket from s to e: its line is the number of
\* newlines before it, start_character the zero-based column of its first
\* character and end_character the column after its last one.
RefrenceOf(text, s, e) ==
    [ticket |-> SubSeq(text, s, e - 1),
     range |-> [line |-> Cardinality({k \in 1..(s - 1) : CharAt(text, k) = "\n"}),
                start_character |-> s - LineStart(text, s),
                end_character |-> e - LineStart(text, s)]]

\* The references of a text.
RefrencesOf(text) ==
    {RefrenceOf(text, s, e) : <<s, e>> \in
        {se \in (1..Len(text)) \X (1..(Len(text) + 1)) : IsTicket(text, se[1], se[2])}}

\* C20: for every Jira reference found by find_refrences_in_file, on the
\* first line and on every later line, the line of the range is the number
\* of newlines before the match, start_character the zero-based column of
\* its first character and end_character the column just past its last
\* one, so that contains_position holds at the columns of the match and at
\* no other; computing them never underflows, a match at offset 0 included.
C20_RangesOfRefrences ==
    call = "finder" =>
        /\ finder.pc # "panicked"
        /\ (cache # None /\ finder.pc # "scan") =>
            /\ Len(cache[1].refrences) = Cardinality(RefrencesOf(finder.file_contents))
            /\ \A i \in 1..Len(cache[1].refrences) :
                /\ cache[1].refrences[i] \in RefrencesOf(finder.file_contents)
                /\ \A c \in 0..Len(finder.file_contents) :
                    contains_position(cache[1].refrences[i].range,
                                      cache[1].refrences[i].range.line, c)
                    <=> \E r \in RefrencesOf(finder.file_contents) :
                            /\ r.ticket = cache[1].refrences[i].ticket
                            /\ r.range.line = cache[1].refrences[i].range.line
                            /\ r.range.start_character <= c
                            /\ c < r.range.end_character

-----------------------------------------------------------------------------
(* The responses of the server. *)

\* The responses sent that carry the id.
ResponsesTo(id) == {i \in 1..Len(server.sent) : server.sent[i] = id}

\* C21: for every request run_loop takes other than shutdown (goto
\* definition, inlay hint, hover, document link, or any other method), the
\* loop keeps running, it neither panics nor returns, and when it is back at
\* taking the next message exactly one response with the id of the request
\* was sent.
C21_OneResponsePerRequest ==
    (/\ call = "server"
     /\ server.msg.kind = "request"
     /\ server.msg.method # "shutdown") =>
        /\ server.pc \notin {"panicked", "cast_error"}
        /\ Cardinality(ResponsesTo(server.msg.id)) <= 1
        /\ server.pc = "recv" => Cardinality(ResponsesTo(server.msg.id)) = 1

=============================================================================
